---- MODULE Spec2Model ----
(***************************************************************************)
(* A model of linter.js (magnetikonline/sass-structure): the recursive     *)
(* directory enumeration readdirRecurse, the load-and-lint pass            *)
(* processResultList with its counters, the per-line rules of lintFile and *)
(* the summary renderResults.                                              *)
(*                                                                         *)
(* Strings are sequences of one-character strings, so that the regular     *)
(* expressions, trims, splits and comparisons of the source are computed   *)
(* character by character.                                                 *)
(***************************************************************************)
EXTENDS Integers, Sequences, FiniteSets, TLC

(***************************************************************************)
(* Characters and strings                                                  *)
(***************************************************************************)

\* The characters of the model: tab, line feed, carriage return and printable
\* ASCII without the double quote, the backslash and the backtick, in ascending
\* UTF-16 code unit order.
Ascii ==
    << "\t", "\n", "\r", " ", "!", "#", "$", "%", "&", "'", "(", ")",
       "*", "+", ",", "-", ".", "/", "0", "1", "2", "3", "4", "5", "6", "7",
       "8", "9", ":", ";", "<", "=", ">", "?", "@", "A", "B", "C", "D", "E",
       "F", "G", "H", "I", "J", "K", "L", "M", "N", "O", "P", "Q", "R", "S",
       "T", "U", "V", "W", "X", "Y", "Z", "[", "]", "^", "_", "a",
       "b", "c", "d", "e", "f", "g", "h", "i", "j", "k", "l", "m", "n", "o",
       "p", "q", "r", "s", "t", "u", "v", "w", "x", "y", "z", "{", "|", "}",
       "~" >>

Code(c) == CHOOSE i \in 1..Len(Ascii) : Ascii[i] = c

UpperSeq ==
    << "A", "B", "C", "D", "E", "F", "G", "H", "I", "J", "K", "L", "M", "N",
       "O", "P", "Q", "R", "S", "T", "U", "V", "W", "X", "Y", "Z" >>
LowerSeq ==
    << "a", "b", "c", "d", "e", "f", "g", "h", "i", "j", "k", "l", "m", "n",
       "o", "p", "q", "r", "s", "t", "u", "v", "w", "x", "y", "z" >>
Upper == { UpperSeq[i] : i \in 1..Len(UpperSeq) }
Lower == { LowerSeq[i] : i \in 1..Len(LowerSeq) }
Digit == {"0", "1", "2", "3", "4", "5", "6", "7", "8", "9"}
\* What String.prototype.trim / trimRight remove (of the characters above).
WhiteSpace == {" ", "\t", "\n", "\r"}
\* What the regular expression atom . does not match.
LineTerminator == {"\n", "\r"}

\* a < b for two strings, as JavaScript compares them (code unit by code unit,
\* a proper prefix being smaller).
RECURSIVE StrLess(_, _)
StrLess(a, b) ==
    IF b = <<>> THEN FALSE
    ELSE IF a = <<>> THEN TRUE
    ELSE IF Head(a) = Head(b) THEN StrLess(Tail(a), Tail(b))
    ELSE Code(Head(a)) < Code(Head(b))

IsPrefix(p, s) == Len(p) <= Len(s) /\ SubSeq(s, 1, Len(p)) = p

IsSuffix(p, s) == Len(p) <= Len(s) /\ SubSeq(s, Len(s) - Len(p) + 1, Len(s)) = p

\* String.prototype.toLowerCase
LowerOf(c) ==
    IF c \in Upper
    THEN LowerSeq[CHOOSE i \in 1..Len(UpperSeq) : UpperSeq[i] = c]
    ELSE c

toLowerCase(s) == [i \in 1..Len(s) |-> LowerOf(s[i])]

\* String.prototype.trimRight
RECURSIVE trimRight(_)
trimRight(s) ==
    IF s # <<>> /\ s[Len(s)] \in WhiteSpace
    THEN trimRight(SubSeq(s, 1, Len(s) - 1))
    ELSE s

RECURSIVE trimLeft(_)
trimLeft(s) ==
    IF s # <<>> /\ Head(s) \in WhiteSpace THEN trimLeft(Tail(s)) ELSE s

\* Mutant of trim: only the end of the line is trimmed.
trim_RightOnly(s) == trimRight(s)

\* String.prototype.trim
trim(s) == trimLeft(trimRight(s))

(***************************************************************************)
(* Regular expressions.  A pattern anchored with ^ is a sequence of atoms; *)
(* an atom is a character class (neg: the class is complemented) with a    *)
(* quantifier "1", "+" or "*".  RegExpTest is RegExp.prototype.test for    *)
(* such a pattern: there is a match starting at the first character.       *)
(***************************************************************************)
Lit(c) == [neg |-> FALSE, set |-> {c}, q |-> "1"]
Cls(S) == [neg |-> FALSE, set |-> S, q |-> "1"]
NotCls(S) == [neg |-> TRUE, set |-> S, q |-> "1"]
AnyChar == NotCls(LineTerminator)
Plus(a) == [a EXCEPT !.q = "+"]
Star(a) == [a EXCEPT !.q = "*"]

AtomMatches(a, c) == IF a.neg THEN c \notin a.set ELSE c \in a.set

RECURSIVE MatchFrom(_, _, _, _)
MatchFrom(re, i, s, j) ==
    IF i > Len(re) THEN TRUE
    ELSE LET a == re[i]
             here == j <= Len(s) /\ AtomMatches(a, s[j])
         IN CASE a.q = "1" -> here /\ MatchFrom(re, i + 1, s, j + 1)
              [] a.q = "+" -> here /\ (\/ MatchFrom(re, i + 1, s, j + 1)
                                       \/ MatchFrom(re, i, s, j + 1))
              [] a.q = "*" -> \/ MatchFrom(re, i + 1, s, j)
                              \/ here /\ MatchFrom(re, i, s, j + 1)

RegExpTest(re, s) == MatchFrom(re, 1, s, 1)

\* The atoms of a literal string.
Lits(s) == [i \in 1..Len(s) |-> Lit(s[i])]

\* The atoms RegExp() builds from a path or file name spliced into a pattern.
\* Of the characters the names of the model are made of (letters, digits,
\* _ - . / +) the dot stands for any character and a + after a character
\* quantifies it; the others are literals.
RECURSIVE SplicedAtoms(_)
SplicedAtoms(s) ==
    IF s = <<>> THEN <<>>
    ELSE LET atom == IF Head(s) = "." THEN AnyChar ELSE Lit(Head(s))
         IN IF Len(s) >= 2 /\ s[2] = "+"
            THEN <<Plus(atom)>> \o SplicedAtoms(SubSeq(s, 3, Len(s)))
            ELSE <<atom>> \o SplicedAtoms(Tail(s))

(***************************************************************************)
(* Constants of the linter                                                 *)
(***************************************************************************)
SCSS_EXTENSION == <<"s", "c", "s", "s">>
FILE_ROLE_COMPONENT == "component"
FILE_ROLE_CONFIG == "config"
FILE_ROLE_LAYOUT == "layout"
FILE_ROLE_MIXIN == "mixin"
FILE_ROLE_MODULE == "module"
FILE_ROLE_STYLE == "style"
\* what getFileRole returns for a file it cannot lint (false)
NO_ROLE == "false"

FileRoles == {FILE_ROLE_COMPONENT, FILE_ROLE_CONFIG, FILE_ROLE_LAYOUT,
              FILE_ROLE_MIXIN, FILE_ROLE_MODULE, FILE_ROLE_STYLE}

\* The messages addLintError is called with.
MSG_COMMENT == "Root level comments should be in the form -> // -- top level comment --"
MSG_VARIABLE_HERE == "Variables should not be defined here, use config.scss file"
MSG_VARIABLE_NAME == "Invalid variable name"
MSG_PLACEHOLDER_HERE == "Placeholder selectors should not be used here"
MSG_PLACEHOLDER_NAME == "Invalid placeholder selector name"
MSG_CLASS_HERE == "Class selectors should not be used here"
MSG_CLASS_NAME == "Invalid class selector name"

Slash == <<"/">>
Dot == <<".">>
DotExtension == Dot \o SCSS_EXTENSION

(***************************************************************************)
(* getFileRole                                                             *)
(***************************************************************************)
W_component == <<"c", "o", "m", "p", "o", "n", "e", "n", "t">>
W_module == <<"m", "o", "d", "u", "l", "e">>
W_config == <<"c", "o", "n", "f", "i", "g">>
W_layout == <<"l", "a", "y", "o", "u", "t">>
W_mixin == <<"m", "i", "x", "i", "n">>
W_style == <<"s", "t", "y", "l", "e">>

\* Mutant of getFileRole: config.scss is recognized by the end of the path.
getFileRole_ConfigAnywhere(sourceFile) ==
    IF RegExpTest(Lits(W_component \o Slash), sourceFile) THEN FILE_ROLE_COMPONENT
    ELSE IF RegExpTest(Lits(W_module \o Slash), sourceFile) THEN FILE_ROLE_MODULE
    ELSE IF IsSuffix(W_config \o DotExtension, sourceFile) THEN FILE_ROLE_CONFIG
    ELSE IF sourceFile = W_layout \o DotExtension THEN FILE_ROLE_LAYOUT
    ELSE IF sourceFile = W_mixin \o DotExtension THEN FILE_ROLE_MIXIN
    ELSE IF sourceFile = W_style \o DotExtension THEN FILE_ROLE_STYLE
    ELSE NO_ROLE

getFileRole(sourceFile) ==
    IF RegExpTest(Lits(W_component \o Slash), sourceFile) THEN FILE_ROLE_COMPONENT
    ELSE IF RegExpTest(Lits(W_module \o Slash), sourceFile) THEN FILE_ROLE_MODULE
    ELSE IF sourceFile = W_config \o DotExtension THEN FILE_ROLE_CONFIG
    ELSE IF sourceFile = W_layout \o DotExtension THEN FILE_ROLE_LAYOUT
    ELSE IF sourceFile = W_mixin \o DotExtension THEN FILE_ROLE_MIXIN
    ELSE IF sourceFile = W_style \o DotExtension THEN FILE_ROLE_STYLE
    ELSE NO_ROLE

(***************************************************************************)
(* lintFile: the base name, the line split and the rules of one line       *)
(***************************************************************************)
\* The part of a path after its last slash.
RECURSIVE LastSegment(_)
LastSegment(p) ==
    IF \E i \in 1..Len(p) : p[i] = "/"
    THEN LastSegment(SubSeq(p, (CHOOSE i \in 1..Len(p) : p[i] = "/") + 1, Len(p)))
    ELSE p

\* path.basename(p, ext): the last segment, without ext when it ends in ext and
\* is longer than ext.
basename(p, ext) ==
    LET seg == LastSegment(p)
    IN IF IsSuffix(ext, seg) /\ Len(seg) > Len(ext)
       THEN SubSeq(seg, 1, Len(seg) - Len(ext))
       ELSE seg

\* Mutant of StripLeadingUnderscore: every leading underscore is removed.
RECURSIVE StripLeadingUnderscore_WholeRun(_)
StripLeadingUnderscore_WholeRun(s) ==
    IF s # <<>> /\ Head(s) = "_" THEN StripLeadingUnderscore_WholeRun(Tail(s)) ELSE s

\* s.replace(/^_/,'')
StripLeadingUnderscore(s) ==
    IF RegExpTest(<<Lit("_")>>, s) THEN Tail(s) ELSE s

sourceFileBaseNameOf(sourceFile) ==
    StripLeadingUnderscore(toLowerCase(basename(sourceFile, DotExtension)))

\* fileData.split(/\r?\n/)
RECURSIVE SplitLines(_)
SplitLines(data) ==
    IF \E k \in 1..Len(data) : data[k] = "\n"
    THEN LET k == CHOOSE k \in 1..Len(data) :
                     data[k] = "\n" /\ \A h \in 1..(k - 1) : data[h] # "\n"
             stop == IF k > 1 /\ data[k - 1] = "\r" THEN k - 2 ELSE k - 1
         IN <<SubSeq(data, 1, stop)>> \o SplitLines(SubSeq(data, k + 1, Len(data)))
    ELSE <<data>>

isFileRoleIn(sourceFileRole, roles) == sourceFileRole \in roles

\* Mutant of PlaceHolderForbiddenRoles: placeholders are let through in mixin.scss.
PlaceHolderForbiddenRoles_WithoutMixin == {FILE_ROLE_CONFIG, FILE_ROLE_STYLE}

\* The roles in which a placeholder selector is not allowed:
\* isFileRoleIn(FILE_ROLE_CONFIG,FILE_ROLE_MIXIN,FILE_ROLE_STYLE)
PlaceHolderForbiddenRoles == {FILE_ROLE_CONFIG, FILE_ROLE_MIXIN, FILE_ROLE_STYLE}

Letter == Upper \cup Lower
LetterDigit == Letter \cup Digit
\* [,:. {]
Terminator == {",", ":", ".", " ", "{"}

\* /^\/\//
RE_Comment == <<Lit("/"), Lit("/")>>
\* Mutant of RE_TodoComment: no space is needed before TODO:.
RE_TodoComment_WithoutSpace ==
    <<Lit("/"), Lit("/"), Star(Lit(" ")), Lit("T"), Lit("O"), Lit("D"), Lit("O"), Lit(":")>>

\* /^\/\/ +TODO:/
RE_TodoComment ==
    <<Lit("/"), Lit("/"), Plus(Lit(" ")), Lit("T"), Lit("O"), Lit("D"), Lit("O"), Lit(":")>>
\* /^\/\/ -- [^ ].+[^ ] --/
RE_CommentShape ==
    <<Lit("/"), Lit("/"), Lit(" "), Lit("-"), Lit("-"), Lit(" "),
      NotCls({" "}), Plus(AnyChar), NotCls({" "}),
      Lit(" "), Lit("-"), Lit("-")>>
\* Mutant of RE_ConfigVariable: the first letter may be upper case.
RE_ConfigVariable_AnyFirstLetter ==
    <<Lit("$"), Cls(Letter), Plus(Cls(LetterDigit \cup {"_"})), Lit(":")>>

\* /^\$[a-z][A-Za-z0-9_]+:/
RE_ConfigVariable ==
    <<Lit("$"), Cls(Lower), Plus(Cls(LetterDigit \cup {"_"})), Lit(":")>>
\* /^\$l[A-Z][A-Za-z0-9]+:/
RE_LayoutVariable ==
    <<Lit("$"), Lit("l"), Cls(Upper), Plus(Cls(LetterDigit)), Lit(":")>>
\* [A-Z][A-Za-z]+_[a-z][A-Za-z0-9]+
RE_NamespacedName ==
    <<Cls(Upper), Plus(Cls(Letter)), Lit("_"), Cls(Lower), Plus(Cls(LetterDigit))>>
\* /^\$[cm][A-Z][A-Za-z]+_[a-z][A-Za-z0-9]+:/
RE_NamespacedVariable ==
    <<Lit("$"), Cls({"c", "m"})>> \o RE_NamespacedName \o <<Lit(":")>>
\* /^%l[A-Z][A-Za-z0-9]+[,:. {]/
RE_LayoutPlaceHolder ==
    <<Lit("%"), Lit("l"), Cls(Upper), Plus(Cls(LetterDigit)), Cls(Terminator)>>
\* /^%c[A-Z]/
RE_SimplePlaceHolderCase == <<Lit("%"), Lit("c"), Cls(Upper)>>
\* /^%[cm][A-Z][A-Za-z]+_[a-z][A-Za-z0-9]+[,:. {]/
RE_NamespacedPlaceHolder ==
    <<Lit("%"), Cls({"c", "m"})>> \o RE_NamespacedName \o <<Cls(Terminator)>>
\* /^\.[a-z0-9][a-z0-9-]*[a-z0-9][,:. {]/
RE_ClassName ==
    <<Lit("."), Cls(Lower \cup Digit), Star(Cls(Lower \cup Digit \cup {"-"})),
      Cls(Lower \cup Digit), Cls(Terminator)>>

lintVariablePlaceHolderPrefixChars(sourceFileRole, firstChar, lineText) ==
    LET secondChar ==
            IF sourceFileRole = FILE_ROLE_COMPONENT THEN "c"
            ELSE IF sourceFileRole = FILE_ROLE_LAYOUT THEN "l"
            ELSE IF sourceFileRole = FILE_ROLE_MODULE THEN "m"
            ELSE "false"
    IN IF secondChar = "false" THEN TRUE
       ELSE SubSeq(lineText, 1, IF Len(lineText) < 2 THEN Len(lineText) ELSE 2)
                = <<firstChar, secondChar>>

lintVariable(sourceFileRole, sourceFileBaseName, lineText) ==
    IF ~lintVariablePlaceHolderPrefixChars(sourceFileRole, "$", lineText) THEN FALSE
    ELSE IF sourceFileRole = FILE_ROLE_CONFIG /\ ~RegExpTest(RE_ConfigVariable, lineText)
    THEN FALSE
    ELSE IF sourceFileRole = FILE_ROLE_LAYOUT /\ ~RegExpTest(RE_LayoutVariable, lineText)
    THEN FALSE
    ELSE IF isFileRoleIn(sourceFileRole, {FILE_ROLE_COMPONENT, FILE_ROLE_MODULE})
    THEN IF ~RegExpTest(RE_NamespacedVariable, lineText) THEN FALSE
         \* RegExp('^\\$[cm]' + sourceFileBaseName + '_')
         ELSE RegExpTest(<<Lit("$"), Cls({"c", "m"})>>
                             \o SplicedAtoms(sourceFileBaseName) \o <<Lit("_")>>,
                         toLowerCase(lineText))
    ELSE TRUE

lintPlaceHolder(sourceFileRole, sourceFileBaseName, lineText) ==
    IF ~lintVariablePlaceHolderPrefixChars(sourceFileRole, "%", lineText) THEN FALSE
    ELSE IF sourceFileRole = FILE_ROLE_LAYOUT /\ ~RegExpTest(RE_LayoutPlaceHolder, lineText)
    THEN FALSE
    ELSE IF isFileRoleIn(sourceFileRole, {FILE_ROLE_COMPONENT, FILE_ROLE_MODULE})
    THEN LET \* RegExp('^%c' + sourceFileBaseName + '[,:. {]')
             isSimple ==
                 /\ sourceFileRole = FILE_ROLE_COMPONENT
                 /\ RegExpTest(<<Lit("%"), Lit("c")>> \o SplicedAtoms(sourceFileBaseName)
                                   \o <<Cls(Terminator)>>,
                               toLowerCase(lineText))
         IN IF isSimple
            THEN RegExpTest(RE_SimplePlaceHolderCase, lineText)
            ELSE IF ~RegExpTest(RE_NamespacedPlaceHolder, lineText) THEN FALSE
            \* RegExp('^%[cm]' + sourceFileBaseName + '_')
            ELSE RegExpTest(<<Lit("%"), Cls({"c", "m"})>>
                                \o SplicedAtoms(sourceFileBaseName) \o <<Lit("_")>>,
                            toLowerCase(lineText))
    ELSE TRUE

lintClassName(sourceFileBaseName, lineText) ==
    IF ~RegExpTest(RE_ClassName, lineText) THEN FALSE
    \* RegExp('^\.' + sourceFileBaseName + '[,:.\\- {]'): in the string literal
    \* '\.' is a plain dot, so the pattern starts with the atom "any character"
    ELSE RegExpTest(<<AnyChar>> \o SplicedAtoms(sourceFileBaseName)
                        \o <<Cls(Terminator \cup {"-"})>>,
                    toLowerCase(lineText))

\* lintResultCollection is an object keyed by file name; for..in visits its keys
\* in the order they were first assigned, so it is kept as the sequence of its
\* entries [fileName, errors] in insertion order.
HasKey(collection, fileName) ==
    \E i \in 1..Len(collection) : collection[i].fileName = fileName

\* Mutant of KeyIndex: every file name leads to the first item.
KeyIndex_FirstItem(collection, fileName) == 1

KeyIndex(collection, fileName) ==
    CHOOSE i \in 1..Len(collection) : collection[i].fileName = fileName

\* Mutant of addLintError: the index of the line is recorded as it is.
addLintError_ZeroBased(collection, sourceFile, lineNumber, errorText) ==
    LET created ==
            IF ~HasKey(collection, sourceFile)
            THEN Append(collection, [fileName |-> sourceFile, errors |-> <<>>])
            ELSE collection
    IN [created EXCEPT ![KeyIndex(created, sourceFile)].errors =
                           Append(@, <<lineNumber, errorText>>)]

addLintError(collection, sourceFile, lineNumber, errorText) ==
    LET created ==
            IF ~HasKey(collection, sourceFile)
            THEN Append(collection, [fileName |-> sourceFile, errors |-> <<>>])
            ELSE collection
    IN [created EXCEPT ![KeyIndex(created, sourceFile)].errors =
                           Append(@, <<lineNumber + 1, errorText>>)]

\* The body of the forEach over the lines: one line, lineNumber counted from 0.
LintLine(collection, sourceFile, sourceFileRole, sourceFileBaseName, rawLine, lineNumber) ==
    LET lineTextTrim == trim(rawLine)
        lineText == trimRight(rawLine)
        afterVariable ==
            IF RegExpTest(<<Lit("$")>>, lineTextTrim)
            THEN IF sourceFileRole = FILE_ROLE_STYLE
                 THEN addLintError(collection, sourceFile, lineNumber, MSG_VARIABLE_HERE)
                 ELSE IF ~lintVariable(sourceFileRole, sourceFileBaseName, lineTextTrim)
                 THEN addLintError(collection, sourceFile, lineNumber, MSG_VARIABLE_NAME)
                 ELSE collection
            ELSE collection
        afterPlaceHolder ==
            IF RegExpTest(<<Lit("%")>>, lineTextTrim)
            THEN IF isFileRoleIn(sourceFileRole, PlaceHolderForbiddenRoles)
                 THEN addLintError(afterVariable, sourceFile, lineNumber, MSG_PLACEHOLDER_HERE)
                 ELSE IF ~lintPlaceHolder(sourceFileRole, sourceFileBaseName, lineTextTrim)
                 THEN addLintError(afterVariable, sourceFile, lineNumber, MSG_PLACEHOLDER_NAME)
                 ELSE afterVariable
            ELSE afterVariable
        afterClass ==
            IF RegExpTest(<<Lit(".")>>, lineText)
            THEN IF sourceFileRole # FILE_ROLE_MODULE
                 THEN addLintError(afterPlaceHolder, sourceFile, lineNumber, MSG_CLASS_HERE)
                 ELSE IF ~lintClassName(sourceFileBaseName, lineText)
                 THEN addLintError(afterPlaceHolder, sourceFile, lineNumber, MSG_CLASS_NAME)
                 ELSE afterPlaceHolder
            ELSE afterPlaceHolder
    IN IF RegExpTest(RE_Comment, lineText)
       THEN IF /\ ~RegExpTest(RE_TodoComment, lineText)
               /\ isFileRoleIn(sourceFileRole, {FILE_ROLE_COMPONENT, FILE_ROLE_LAYOUT,
                                                FILE_ROLE_MIXIN, FILE_ROLE_MODULE})
               /\ ~RegExpTest(RE_CommentShape, lineText)
            THEN addLintError(collection, sourceFile, lineNumber, MSG_COMMENT)
            ELSE collection
       ELSE afterClass

RECURSIVE LintLines(_, _, _, _, _, _)
LintLines(collection, sourceFile, sourceFileRole, sourceFileBaseName, lines, lineNumber) ==
    IF lineNumber >= Len(lines) THEN collection
    ELSE LintLines(LintLine(collection, sourceFile, sourceFileRole, sourceFileBaseName,
                            lines[lineNumber + 1], lineNumber),
                   sourceFile, sourceFileRole, sourceFileBaseName, lines, lineNumber + 1)

\* Mutant of lintFile: the collection item of the file is created before its
\* lines are looked at.
lintFile_CreatesItemFirst(collection, sourceFile, sourceFileRole, fileData) ==
    LintLines(IF HasKey(collection, sourceFile) THEN collection
              ELSE Append(collection, [fileName |-> sourceFile, errors |-> <<>>]),
              sourceFile, sourceFileRole, sourceFileBaseNameOf(sourceFile),
              SplitLines(fileData), 0)

\* lintFile: lintResultCollection after the file has been linted.
lintFile(collection, sourceFile, sourceFileRole, fileData) ==
    LintLines(collection, sourceFile, sourceFileRole, sourceFileBaseNameOf(sourceFile),
              SplitLines(fileData), 0)

(***************************************************************************)
(* The file system the run works on.  An entry is the sequence of names    *)
(* leading to it from the scan directory; the trees of the model are the   *)
(* parts of FileSystemUniverse with at most MaxEntries entries.            *)
(***************************************************************************)
MaxEntries == 4

N_a_txt == <<"a", ".", "t", "x", "t">>
N_nav_scss == <<"n", "a", "v">> \o DotExtension
N_unav_scss == <<"_", "n", "a", "v">> \o DotExtension
N_d_scss == <<"d">> \o DotExtension
N_x_scss == <<"x">> \o DotExtension
N_lib == <<"l", "i", "b">>

DirectoryEntries ==
    { <<W_component>>, <<W_component, N_d_scss>>, <<W_module>>, <<N_lib>> }

FileEntries ==
    { <<W_config \o DotExtension>>, <<W_layout \o DotExtension>>,
      <<W_mixin \o DotExtension>>, <<W_style \o DotExtension>>, <<N_a_txt>>,
      <<N_x_scss>>,
      <<W_component, N_nav_scss>>, <<W_component, N_d_scss, N_x_scss>>,
      <<W_module, N_unav_scss>>, <<N_lib, W_config \o DotExtension>> }

FileSystemUniverse == DirectoryEntries \cup FileEntries

Parent(e) == SubSeq(e, 1, Len(e) - 1)

Trees ==
    { t \in SUBSET FileSystemUniverse :
        /\ Cardinality(t) <= MaxEntries
        /\ \A e \in t : Len(e) > 1 => Parent(e) \in t }

\* The scan directories (absolute, as fetchScanDir resolves them): a plain
\* directory, the root directory, and a directory whose name has a character
\* that is special in a regular expression.
ScanDirList == << <<"/", "w">>, <<"/">>, <<"/", "c", "+">> >>

\* What fs.readFile delivers for a file: a file without a violation in any
\* role, and one with a violation on its first and on its third line in every role.
SampleData ==
    { <<"a", " ", "{">>,
      <<".", "X", " ", "{", "\r", "\n", "}", "\n", ".", "Y", " ", "{">> }

VARIABLES
    startDir,              \* readdirRecurse's startDir (scanDir)
    tree,                  \* the entries below startDir
    queueCount,            \* readdirRecurse: outstanding work counter
    resultList,            \* readdirRecurse: the array of collected paths
    isFinished,            \* readdirRecurse: finish() has run
    pendingReaddir,        \* entries with an fs.readdir callback outstanding
    pendingStat,           \* entries with an fs.stat callback outstanding
    callbackCount,         \* how often readdirRecurse's callback was invoked
    callbackArg,           \* the list as the callback saw it when invoked
    processQueueCount,     \* processResultList: outstanding reads counter
    lintFileCount,         \* processResultList: files linted
    lintResultCollection,  \* processResultList: the violations by file
    pendingRead,           \* [sourceFile, sourceFileRole] with fs.readFile outstanding
    readDone,              \* the readFile callbacks that have fired, in firing order
    renderedReports,       \* what each call of renderResults printed
    errorLog,              \* what logError printed
    failedCalls            \* the entries whose fs.readdir or fs.stat gave an error

enumVars == <<queueCount, resultList, isFinished, pendingReaddir, pendingStat,
              callbackCount, callbackArg>>
processVars == <<processQueueCount, lintFileCount, lintResultCollection, pendingRead,
                 readDone, renderedReports>>
vars == <<startDir, tree, enumVars, processVars, errorLog, failedCalls>>

\* path.resolve(dir, name) for an absolute dir and a plain name
pathResolve(dir, name) ==
    IF dir = Slash THEN dir \o name ELSE dir \o Slash \o name

\* The full path fetch() and fs.stat work with for an entry.
RECURSIVE FullPath(_, _)
FullPath(dir, e) ==
    IF e = <<>> THEN dir ELSE pathResolve(FullPath(dir, Parent(e)), e[Len(e)])

\* fs.readdir's list for a directory entry
Children(t, e) == { c \in t : Len(c) = Len(e) + 1 /\ Parent(c) = e }

\* stat.isDirectory()
isDirectory(e) == e \in DirectoryEntries

\* extensionMatchRegExp.test(sourceFile): RegExp('\\.' + extension + '$')
extensionMatch(sourceFile) == IsSuffix(DotExtension, sourceFile)

\* sourceFile.replace(basePathRemoveRegExp,''), basePathRemoveRegExp being
\* RegExp('^' + path.resolve(startDir) + '/')
removeBasePath(dir, sourceFile) ==
    LET base == dir \o Slash
    IN IF RegExpTest(SplicedAtoms(base), sourceFile)
       THEN SubSeq(sourceFile, Len(base) + 1, Len(sourceFile))
       ELSE sourceFile

\* Array.prototype.sort with finish()'s comparator
RECURSIVE InsertSorted(_, _)
InsertSorted(x, list) ==
    IF list = <<>> THEN <<x>>
    ELSE IF StrLess(x, Head(list)) THEN <<x>> \o list
    ELSE <<Head(list)>> \o InsertSorted(x, Tail(list))

RECURSIVE sortList(_)
sortList(list) ==
    IF list = <<>> THEN <<>> ELSE InsertSorted(Head(list), sortList(Tail(list)))

Init ==
    /\ \E i \in 1..Len(ScanDirList) : startDir = ScanDirList[i]
    /\ tree \in Trees
    /\ queueCount = 1
    /\ resultList = <<>>
    /\ isFinished = FALSE
    /\ pendingReaddir = {<<>>}
    /\ pendingStat = {}
    /\ callbackCount = 0
    /\ callbackArg = <<>>
    /\ processQueueCount = 0
    /\ lintFileCount = 0
    /\ lintResultCollection = <<>>
    /\ pendingRead = {}
    /\ readDone = <<>>
    /\ renderedReports = <<>>
    /\ errorLog = {}
    /\ failedCalls = {}

(***************************************************************************)
(* renderResults                                                           *)
(***************************************************************************)
RECURSIVE ErrorCount(_)
ErrorCount(collection) ==
    IF collection = <<>> THEN 0
    ELSE Len(Head(collection).errors) + ErrorCount(Tail(collection))

\* [fileCount, errorCount], or <<>> for false
getLintResultSummaryCounts(collection) ==
    IF Len(collection) > 0 THEN <<Len(collection), ErrorCount(collection)>> ELSE <<>>

\* Mutant of renderResults: the skipped count is the discovered count.
renderResults_SkippedIsDiscovered(resultCount, lintedCount, collection) ==
    LET summaryCounts == getLintResultSummaryCounts(collection)
    IN [ linted |-> lintedCount,
         skipped |-> resultCount,
         summaryCounts |-> summaryCounts,
         details |-> IF summaryCounts = <<>> THEN <<>> ELSE collection ]

\* What one call prints: the counts line, the summary line and, when there
\* are errors, renderErrorDetails' files in for..in order.
renderResults(resultCount, lintedCount, collection) ==
    LET summaryCounts == getLintResultSummaryCounts(collection)
    IN [ linted |-> lintedCount,
         skipped |-> resultCount - lintedCount,
         summaryCounts |-> summaryCounts,
         details |-> IF summaryCounts = <<>> THEN <<>> ELSE collection ]

(***************************************************************************)
(* processResultList up to its return: every role-recognized file of the   *)
(* list has its read queued, in list order.                                *)
(***************************************************************************)
QueuedReads(list) ==
    { [sourceFile |-> list[i], sourceFileRole |-> getFileRole(list[i])] :
        i \in { j \in 1..Len(list) : getFileRole(list[j]) # NO_ROLE } }

processResultList(list) ==
    /\ pendingRead' = QueuedReads(list)
    /\ processQueueCount' =
           Cardinality({ j \in 1..Len(list) : getFileRole(list[j]) # NO_ROLE })
    /\ lintFileCount' = 0
    /\ lintResultCollection' = <<>>
    /\ UNCHANGED <<readDone, renderedReports, errorLog>>

\* The callback given to readdirRecurse.
EnumerationCallback(list) ==
    IF Len(list) = 0
    THEN /\ errorLog' = errorLog \cup {[error |-> "locate", path |-> <<>>]}
         /\ UNCHANGED processVars
    ELSE processResultList(list)

\* Mutant of finishList: finish([]) delivers what was collected so far.
finishList_IgnoresArgument(rl, listGiven, list) == rl

\* resultList = (list === undefined) ? resultList : list
finishList(rl, listGiven, list) == IF listGiven THEN list ELSE rl

\* Mutant of finish: isFinished is not looked at.
finish_WithoutGuard(rl, listGiven, list) ==
    LET sorted == sortList(finishList(rl, listGiven, list))
    IN /\ isFinished' = TRUE
       /\ resultList' = sorted
       /\ callbackCount' = callbackCount + 1
       /\ callbackArg' = sorted
       /\ EnumerationCallback(sorted)

\* finish(list), rl being resultList as the caller left it; listGiven is false
\* for finish().
finish(rl, listGiven, list) ==
    IF isFinished
    THEN /\ resultList' = rl
         /\ UNCHANGED <<isFinished, callbackCount, callbackArg, processVars, errorLog>>
    ELSE LET sorted == sortList(finishList(rl, listGiven, list))
         IN /\ isFinished' = TRUE
            /\ resultList' = sorted
            /\ callbackCount' = callbackCount + 1
            /\ callbackArg' = sorted
            /\ EnumerationCallback(sorted)

NotFinishing(rl) ==
    /\ resultList' = rl
    /\ UNCHANGED <<isFinished, callbackCount, callbackArg, processVars, errorLog>>

(***************************************************************************)
(* readdirRecurse: the callbacks of fs.readdir and fs.stat                 *)
(***************************************************************************)
\* queueCount--; queueCount += list.length
countAfterReaddir(count, length) == count - 1 + length

\* Mutant of countAfterStatDirectory: the recursive fetch is not counted.
countAfterStatDirectory_NotRequeued(count) == count - 1

\* queueCount-- and, for a directory, queueCount++ before fetch(sourceFile)
countAfterStatDirectory(count) == count - 1 + 1

\* queueCount-- for a file
countAfterStatFile(count) == count - 1

ReaddirError(d) ==
    /\ d \in pendingReaddir
    /\ pendingReaddir' = pendingReaddir \ {d}
    /\ failedCalls' = failedCalls \cup {d}
    /\ finish(resultList, TRUE, <<>>)
    /\ UNCHANGED <<startDir, tree, queueCount, pendingStat>>

ReaddirOk(d) ==
    /\ d \in pendingReaddir
    /\ pendingReaddir' = pendingReaddir \ {d}
    /\ LET list == Children(tree, d)
           count == countAfterReaddir(queueCount, Cardinality(list))
       IN /\ queueCount' = count
          /\ IF count = 0
             THEN /\ finish(resultList, FALSE, <<>>)
                  /\ UNCHANGED pendingStat
             ELSE /\ pendingStat' = pendingStat \cup list
                  /\ NotFinishing(resultList)
    /\ UNCHANGED <<startDir, tree, failedCalls>>

StatError(e) ==
    /\ e \in pendingStat
    /\ pendingStat' = pendingStat \ {e}
    /\ failedCalls' = failedCalls \cup {e}
    /\ finish(resultList, TRUE, <<>>)
    /\ UNCHANGED <<startDir, tree, queueCount, pendingReaddir>>

StatOk(e) ==
    /\ e \in pendingStat
    /\ pendingStat' = pendingStat \ {e}
    /\ IF isDirectory(e)
       THEN /\ queueCount' = countAfterStatDirectory(queueCount)
            /\ pendingReaddir' = pendingReaddir \cup {e}
            /\ NotFinishing(resultList)
       ELSE LET sourceFile == FullPath(startDir, e)
                pushed == IF extensionMatch(sourceFile)
                          THEN Append(resultList, removeBasePath(startDir, sourceFile))
                          ELSE resultList
            IN /\ queueCount' = countAfterStatFile(queueCount)
               /\ UNCHANGED pendingReaddir
               /\ IF countAfterStatFile(queueCount) = 0
                  THEN finish(pushed, FALSE, <<>>)
                  ELSE NotFinishing(pushed)
    /\ UNCHANGED <<startDir, tree, failedCalls>>

(***************************************************************************)
(* openSourceFile: the callback of fs.readFile                             *)
(***************************************************************************)
\* Mutant of complete: the results are rendered whatever the counter says.
complete_WithoutTest(count, linted, collection) ==
    renderedReports' =
        Append(renderedReports, renderResults(Len(resultList), linted, collection))

\* complete(), with the counters as the callback left them
complete(count, linted, collection) ==
    renderedReports' =
        IF count = 0
        THEN Append(renderedReports, renderResults(Len(resultList), linted, collection))
        ELSE renderedReports

\* Mutant of ReadFileError: the error branch returns without complete().
ReadFileError_WithoutComplete(r) ==
    /\ r \in pendingRead
    /\ pendingRead' = pendingRead \ {r}
    /\ readDone' = Append(readDone, [sourceFile |-> r.sourceFile,
                                     sourceFileRole |-> r.sourceFileRole,
                                     err |-> TRUE, fileData |-> <<>>])
    /\ processQueueCount' = processQueueCount - 1
    /\ errorLog' = errorLog \cup
           {[error |-> "open", path |-> startDir \o Slash \o r.sourceFile]}
    /\ UNCHANGED <<startDir, tree, enumVars, lintFileCount, lintResultCollection,
                   renderedReports, failedCalls>>

ReadFileError(r) ==
    /\ r \in pendingRead
    /\ pendingRead' = pendingRead \ {r}
    /\ readDone' = Append(readDone, [sourceFile |-> r.sourceFile,
                                     sourceFileRole |-> r.sourceFileRole,
                                     err |-> TRUE, fileData |-> <<>>])
    /\ processQueueCount' = processQueueCount - 1
    /\ errorLog' = errorLog \cup
           {[error |-> "open", path |-> startDir \o Slash \o r.sourceFile]}
    /\ complete(processQueueCount - 1, lintFileCount, lintResultCollection)
    /\ UNCHANGED <<startDir, tree, enumVars, lintFileCount, lintResultCollection,
                   failedCalls>>

ReadFileOk(r, fileData) ==
    /\ r \in pendingRead
    /\ pendingRead' = pendingRead \ {r}
    /\ readDone' = Append(readDone, [sourceFile |-> r.sourceFile,
                                     sourceFileRole |-> r.sourceFileRole,
                                     err |-> FALSE, fileData |-> fileData])
    /\ processQueueCount' = processQueueCount - 1
    /\ lintResultCollection' =
           lintFile(lintResultCollection, r.sourceFile, r.sourceFileRole, fileData)
    /\ lintFileCount' = lintFileCount + 1
    /\ complete(processQueueCount - 1, lintFileCount + 1, lintResultCollection')
    /\ UNCHANGED <<startDir, tree, enumVars, errorLog, failedCalls>>

Next ==
    \/ \E d \in pendingReaddir : ReaddirError(d)
    \/ \E d \in pendingReaddir : ReaddirOk(d)
    \/ \E e \in pendingStat : StatError(e)
    \/ \E e \in pendingStat : StatOk(e)
    \/ \E r \in pendingRead : ReadFileError(r)
    \/ \E r \in pendingRead : \E fileData \in SampleData : ReadFileOk(r, fileData)

Spec == Init /\ [][Next]_vars

\* readdirRecurse on its own: the callbacks of fs.readdir and fs.stat, each
\* of which node calls once the operation has ended.
NextEnumeration ==
    \/ \E d \in pendingReaddir : ReaddirError(d)
    \/ \E d \in pendingReaddir : ReaddirOk(d)
    \/ \E e \in pendingStat : StatError(e)
    \/ \E e \in pendingStat : StatOk(e)

\* The enumeration of a plain scan directory.
InitEnumeration == Init /\ startDir = ScanDirList[1]

SpecEnumeration ==
    InitEnumeration /\ [][NextEnumeration]_vars /\ WF_vars(NextEnumeration)

(***************************************************************************)
(* Properties of the enumeration                                           *)
(***************************************************************************)
\* The entries of the tree that are files whose name ends in the extension.
MatchingFiles == { e \in tree : e \notin DirectoryEntries /\ IsSuffix(DotExtension, e[Len(e)]) }

\* The names of an entry joined with slashes: its path relative to the scan
\* directory.
RECURSIVE RelativePath(_)
RelativePath(e) ==
    IF Len(e) = 1 THEN e[1] ELSE RelativePath(Parent(e)) \o Slash \o e[Len(e)]

Elements(list) == { list[i] : i \in 1..Len(list) }

\* C1: as long as no readdir and no stat has failed, queueCount is the number
\* of outstanding readdir and stat callbacks, and once the callback has been
\* invoked none is outstanding and the list it received has one element for
\* every extension-matching file of the tree, at every depth.
C1_CompletionBarrier ==
    failedCalls = {} =>
        /\ queueCount = Cardinality(pendingReaddir) + Cardinality(pendingStat)
        /\ callbackCount > 0 =>
               /\ pendingReaddir = {} /\ pendingStat = {}
               /\ Len(callbackArg) = Cardinality(MatchingFiles)
               /\ \A e \in MatchingFiles :
                      removeBasePath(startDir, FullPath(startDir, e)) \in Elements(callbackArg)

\* C1 witness: an enumeration without error has delivered the file below two
\* nested directories, of a tree that also has an empty directory.
C1_Witness ==
    /\ failedCalls = {}
    /\ callbackCount = 1
    /\ <<W_component, N_d_scss, N_x_scss>> \in tree
    /\ <<N_lib>> \in tree
    /\ Len(callbackArg) = 1

\* C4: once a readdir or a stat has failed the callback has been invoked, with
\* an empty list, and nothing is loaded, linted or rendered.
C4_ErrorDeliversEmptyList ==
    failedCalls # {} =>
        /\ callbackCount = 1
        /\ callbackArg = <<>>
        /\ pendingRead = {} /\ readDone = <<>>
        /\ processQueueCount = 0 /\ lintFileCount = 0
        /\ lintResultCollection = <<>>
        /\ renderedReports = <<>>

\* C4 witness: a call has failed after a matching file had been collected (its
\* stat has succeeded, yet resultList is empty again) while another stat is
\* still outstanding.
C4_Witness ==
    /\ failedCalls # {}
    /\ pendingStat # {}
    /\ resultList = <<>>
    /\ \E e \in MatchingFiles :
           /\ e \notin pendingStat /\ e \notin failedCalls
           /\ Parent(e) \notin pendingReaddir /\ Parent(e) \notin failedCalls
           /\ (Len(e) > 1 => Parent(e) \notin pendingStat)
           /\ \A k \in 1..(Len(e) - 1) : SubSeq(e, 1, k) \notin pendingStat \cup pendingReaddir

\* C7 (as claimed): the delivered list is strictly ascending and its elements
\* are exactly the paths, relative to the scan directory, of the files whose
\* name ends in the extension.
C7_SortedRelativeOnce ==
    (callbackCount > 0 /\ failedCalls = {}) =>
        /\ \A i \in 1..(Len(callbackArg) - 1) : StrLess(callbackArg[i], callbackArg[i + 1])
        /\ Elements(callbackArg) = { RelativePath(e) : e \in MatchingFiles }

(***************************************************************************)
(* Properties of the load-and-lint pass                                    *)
(***************************************************************************)
\* The role the naming convention gives a relative path.
RoleByConvention(path) ==
    CASE IsPrefix(W_component \o Slash, path) -> FILE_ROLE_COMPONENT
      [] IsPrefix(W_module \o Slash, path) -> FILE_ROLE_MODULE
      [] path = W_config \o DotExtension -> FILE_ROLE_CONFIG
      [] path = W_layout \o DotExtension -> FILE_ROLE_LAYOUT
      [] path = W_mixin \o DotExtension -> FILE_ROLE_MIXIN
      [] path = W_style \o DotExtension -> FILE_ROLE_STYLE
      [] OTHER -> NO_ROLE

FailedReads == { i \in 1..Len(readDone) : readDone[i].err }
SucceededReads == { i \in 1..Len(readDone) : ~readDone[i].err }
UnrecognizedFiles == { j \in 1..Len(callbackArg) : RoleByConvention(callbackArg[j]) = NO_ROLE }
RecognizedFiles == { j \in 1..Len(callbackArg) : RoleByConvention(callbackArg[j]) # NO_ROLE }

\* C2 (as claimed): every rendered report lists the files with violations in
\* ascending name order, the order of the discovered list.
C2_ReportInDiscoveryOrder ==
    \A k \in 1..Len(renderedReports) :
        LET details == renderedReports[k].details
        IN \A i \in 1..(Len(details) - 1) :
               StrLess(details[i].fileName, details[i + 1].fileName)

\* C3 (as claimed): when a non-empty list has been discovered and every read
\* that was started has called back, the summary has been rendered.
C3_SummaryRendered ==
    (callbackCount = 1 /\ Len(callbackArg) > 0 /\ pendingRead = {}) =>
        Len(renderedReports) = 1

\* C5: a file whose read failed has no entry in the violation collection and
\* is not counted as linted; when a read has failed and all reads have called
\* back, every role-recognized file has been read, the summary has been
\* rendered once and counts the files that loaded.
C5_LoadFailureIsSkipped ==
    /\ \A i \in FailedReads : ~HasKey(lintResultCollection, readDone[i].sourceFile)
    /\ lintFileCount = Cardinality(SucceededReads)
    /\ (FailedReads # {} /\ pendingRead = {}) =>
           /\ \A j \in RecognizedFiles :
                  \E i \in 1..Len(readDone) : readDone[i].sourceFile = callbackArg[j]
           /\ Len(renderedReports) = 1
           /\ renderedReports[1].linted = Cardinality(SucceededReads)
           /\ \A i \in FailedReads :
                  ~HasKey(renderedReports[1].details, readDone[i].sourceFile)

\* C5 witness: the last read to call back failed, after another file had been
\* linted with violations, and the summary has been rendered.
C5_Witness ==
    /\ Len(readDone) >= 2
    /\ readDone[Len(readDone)].err
    /\ ~readDone[1].err
    /\ HasKey(lintResultCollection, readDone[1].sourceFile)
    /\ pendingRead = {}
    /\ Len(renderedReports) = 1

\* C6: the linted count never leaves 0..discovered, and a rendered summary
\* reports as linted the role-recognized files that loaded and as skipped the
\* files without a role plus the files whose load failed.
C6_SummaryCounts ==
    /\ 0 <= lintFileCount /\ lintFileCount <= Len(callbackArg)
    /\ \A k \in 1..Len(renderedReports) :
           /\ renderedReports[k].linted = Cardinality(SucceededReads)
           /\ renderedReports[k].skipped =
                  Cardinality(UnrecognizedFiles) + Cardinality(FailedReads)
           /\ renderedReports[k].linted + renderedReports[k].skipped = Len(callbackArg)

\* C6 witness: a summary rendered for a list with a linted file, a file whose
\* load failed and a file without a role.
C6_Witness ==
    /\ Len(renderedReports) = 1
    /\ SucceededReads # {} /\ FailedReads # {} /\ UnrecognizedFiles # {}

\* C8: every path of the delivered list is queued with the role the naming
\* convention gives it, and a path without a role is never read, never linted,
\* never counted and never a key of the violation collection.
C8_RoleClassification ==
    callbackCount = 1 =>
        /\ \A j \in 1..Len(callbackArg) :
               LET f == callbackArg[j]
                   roles == { r.sourceFileRole : r \in { q \in pendingRead : q.sourceFile = f } }
                            \cup { readDone[i].sourceFileRole :
                                     i \in { h \in 1..Len(readDone) : readDone[h].sourceFile = f } }
               IN IF RoleByConvention(f) = NO_ROLE
                  THEN roles = {} /\ ~HasKey(lintResultCollection, f)
                  ELSE roles = {RoleByConvention(f)}
        /\ lintFileCount <= Cardinality(RecognizedFiles)
        /\ processQueueCount + Len(readDone) = Cardinality(RecognizedFiles)

\* C8 witness: the list holds a file below module/ and a file named config.scss
\* inside another directory; the first has been linted, the summary rendered.
C8_Witness ==
    /\ callbackCount = 1
    /\ callbackArg = <<N_lib \o Slash \o W_config \o DotExtension,
                       W_module \o Slash \o N_unav_scss>>
    /\ HasKey(lintResultCollection, W_module \o Slash \o N_unav_scss)
    /\ Len(renderedReports) = 1

(***************************************************************************)
(* lintFile on its own: the run has enumerated a tree with one             *)
(* role-recognized file and processResultList has queued its read; the     *)
(* read then delivers one of the texts of LintData.                        *)
(***************************************************************************)
MaxIndent == 1
MaxLeadingLines == 1

N_uunav_scss == <<"_", "_", "n", "a", "v">> \o DotExtension
N_Nav_scss == <<"N", "a", "v">> \o DotExtension
N_a_b_scss == <<"a", ".", "b">> \o DotExtension
N_pageheader_scss == <<"p", "a", "g", "e", "h", "e", "a", "d", "e", "r">> \o DotExtension
N_navigationarea_scss == <<"n", "a", "v", "i", "g", "a", "t", "i", "o", "n", "a", "r", "e", "a">> \o DotExtension

\* The linted files: one of each role, base names with one and with two
\* leading underscores, with an upper case letter and with a dot, and the
\* two files of the examples of the specification.
LintFileEntries ==
    { <<W_config \o DotExtension>>, <<W_layout \o DotExtension>>,
      <<W_mixin \o DotExtension>>, <<W_style \o DotExtension>>,
      <<W_component, N_nav_scss>>, <<W_module, N_nav_scss>>,
      <<W_module, N_unav_scss>>, <<W_module, N_uunav_scss>>,
      <<W_component, N_Nav_scss>>,
      <<W_component, N_a_b_scss>>, <<W_module, N_a_b_scss>>,
      <<W_component, N_navigationarea_scss>>, <<W_module, N_pageheader_scss>> }

\* Lines written for a file whose base name is nav.
LintLineSamples ==
    {
      \* comments
      <<"/", "/", " ", "-", "-", " ", "n", "a", "v", " ", "-", "-">>,
      <<"/", "/", " ", "n", "a", "v">>,
      <<"/", "/", " ", "T", "O", "D", "O", ":", " ", "x">>,
      <<"/", "/", "n", "a", "v">>,
      \* variables
      <<"$", "c", "o", "l", "o", "r", "T", "o", "p", ":", " ", "0", ";">>,
      <<"$", "l", "T", "o", "p", ":", " ", "0", ";">>,
      <<"$", "c", "N", "a", "v", "_", "t", "o", "p", ":", " ", "0", ";">>,
      <<"$", "m", "N", "a", "v", "_", "t", "o", "p", ":", " ", "0", ";">>,
      <<"$", "B", "a", "d", ":", " ", "0", ";">>,
      <<"$", "c", "N", "a", "v", ":", " ", "0", ";">>,
      <<"$", "n", "o", "c", "o", "l", "o", "n">>,
      \* placeholder selectors
      <<"%", "l", "T", "o", "p", " ", "{">>,
      <<"%", "c", "N", "a", "v", " ", "{">>,
      <<"%", "c", "N", "a", "v", "_", "t", "o", "p", " ", "{">>,
      <<"%", "m", "N", "a", "v", "_", "t", "o", "p", " ", "{">>,
      <<"%", "m", "N", "a", "v", " ", "{">>,
      <<"%", "b", "a", "d", " ", "{">>,
      \* class selectors
      <<".", "n", "a", "v", " ", "{">>,
      <<".", "n", "a", "v", "-", "i", "t", "e", "m", " ", "{">>,
      <<".", "o", "t", "h", "e", "r", " ", "{">>,
      <<".", "N", "a", "v", " ", "{">>,
      \* functions and mixins
      <<"@", "f", "u", "n", "c", "t", "i", "o", "n", " ", "l", "T", "o", "p", "(", ")", " ", "{">>,
      <<"@", "f", "u", "n", "c", "t", "i", "o", "n", " ", "c", "N", "a", "v", "_", "t", "o", "p", "(", ")", " ", "{">>,
      <<"@", "m", "i", "x", "i", "n", " ", "m", "N", "a", "v", "_", "t", "o", "p", "(", ")", " ", "{">>,
      <<"@", "m", "i", "x", "i", "n", " ", "b", "a", "d", " ", "{">>,
      \* other lines
      <<>>,
      <<"a", " ", "{">>,
      <<"}">>,
      <<"@", "i", "m", "p", "o", "r", "t", " ", "x", ";">>
    }

SecondLineSamples ==
    { <<"$", "x", ":", " ", "0", ";">>, <<"%", "y", " ", "{">>, <<".", "z", " ", "{">> }

\* The lines of the examples of the specification.
ExampleLines ==
    { <<"$", "c", "o", "l", "o", "r", "R", "e", "d", ":", " ", "#", "f", "f", "0", "0", "0", "0", ";">>,
      <<"$", "b", "a", "d", "N", "a", "m", "e", ":", " ", "1", "p", "x", ";">>,
      <<".", "p", "a", "g", "e", "h", "e", "a", "d", "e", "r", "-", "n", "a", "v", "i", "g", "a", "t", "i", "o", "n", "i", "t", "e", "m", " ", "{", " ", "}">>,
      <<".", "o", "t", "h", "e", "r", "n", "a", "m", "e", " ", "{", " ", "}">>,
      <<"%", "c", "N", "a", "v", "i", "g", "a", "t", "i", "o", "n", "A", "r", "e", "a", " ", "{", " ", "}">>,
      <<"%", "c", "N", "a", "v", "i", "g", "a", "t", "i", "o", "n", "A", "r", "e", "a", "_", "m", "a", "k", "e", "I", "t", "P", "o", "p", " ", "{", " ", "}">>,
      <<"%", "c", "n", "a", "v", "i", "g", "a", "t", "i", "o", "n", "a", "r", "e", "a", "_", "M", "a", "k", "e", "I", "t", "P", "o", "p", " ", "{", " ", "}">>,
      <<"/", "/", " ", "-", "-", " ", "s", "o", "m", "e", " ", "d", "e", "t", "a", "i", "l", " ", "-", "-">>,
      <<"/", "/", " ", "s", "o", "m", "e", " ", "d", "e", "t", "a", "i", "l">>,
      <<"/", "/", " ", "T", "O", "D", "O", ":", " ", "f", "i", "x", " ", "t", "h", "i", "s">>,
      <<"/", "/", " ", " ", "T", "O", "D", "O", ":", " ", "f", "i", "x", " ", "t", "h", "i", "s">>,
      <<"/", "/", "T", "O", "D", "O", ":", " ", "f", "i", "x", " ", "t", "h", "i", "s">>,
      <<"/", "/", " ", "-", "-", " ", "T", "O", "D", "O", ":", " ", "x">>,
      <<"$", "m", "N", "a", "v", "_", "t", "o", "p", " ", ":", " ", "0", ";">>,
      <<"%", "c", "_", "n", "a", "v", "_", "t", "o", "p", " ", "{">>,
      <<"$", "m", "_", "n", "a", "v", "_", "t", "o", "p", ":", " ", "0", ";">>,
      <<".", "a", ".", "b", "-", "x", " ", "{">>,
      <<".", "a", "-", "b", " ", "{">> }

\* Names put together from a role letter, a namespace, an underscore or
\* none, a sub-name and an end, behind $ and behind %.
RoleLetterSamples == {"c", "m", "l"}
NamespaceSamples ==
    { <<"N", "a", "v">>,
      <<"n", "a", "v">>,
      <<"N", "A", "V">>,
      <<"N", "a">>,
      <<"N", "a", "v", "x">>,
      <<"A", "x", "b">> }
SubNameSamples == { <<"t", "o", "p">>,
  <<"T", "o", "p">>,
  <<"t">>,
  <<"t", "2">> }
NameEndSamples == { <<":", " ", "0", ";">>,
  <<" ", "{">>,
  <<>> }

NamedLines ==
    { <<first, letter>> \o namespace \o separator \o subName \o end :
        first \in {"$", "%"}, letter \in RoleLetterSamples,
        namespace \in NamespaceSamples, separator \in {<<>>, <<"_">>},
        subName \in SubNameSamples, end \in NameEndSamples }

\* Class selectors put together from a first name, a rest and an end.
ClassNameSamples ==
    { <<"n", "a", "v">>,
      <<"N", "a", "v">>,
      <<"n", "a">>,
      <<"n", "a", "v", "x">>,
      <<"a", "x", "b">>,
      <<"-", "n", "a", "v">>,
      <<"n">> }
ClassRestSamples ==
    { <<>>,
      <<"-", "i", "t", "e", "m">>,
      <<"-">>,
      <<"_", "i", "t", "e", "m">>,
      <<".", "x">>,
      <<"-", "I", "t", "e", "m">> }
ClassEndSamples == { <<" ", "{">>,
  <<",">>,
  <<>>,
  <<"{">> }

ClassLines ==
    { <<".">> \o name \o rest \o end :
        name \in ClassNameSamples, rest \in ClassRestSamples, end \in ClassEndSamples }

\* Comments put together from what follows the slashes, a body and what
\* follows the body.
CommentOpenSamples == { <<" ", "-", "-", " ">>,
  <<" ", "-", "-">>,
  <<"-", "-", " ">>,
  <<" ">>,
  <<" ", " ", "-", "-", " ">> }
CommentBodySamples ==
    { <<>>,
      <<"a">>,
      <<"a", "b">>,
      <<"a", "b", "c">>,
      <<"a", " ", "b">>,
      <<" ", "a", "b", "c">>,
      <<"a", "b", "c", " ">>,
      <<"a", "b", " ">>,
      <<" ", "a", "b">> }
CommentCloseSamples == { <<" ", "-", "-">>,
  <<"-", "-">>,
  <<>>,
  <<" ", "-", "-", " ", "x">> }

CommentLines ==
    { <<"/", "/">> \o open \o body \o close :
        open \in CommentOpenSamples, body \in CommentBodySamples,
        close \in CommentCloseSamples }

RECURSIVE Repeat(_, _)
Repeat(s, k) == IF k = 0 THEN <<>> ELSE s \o Repeat(s, k - 1)

\* A sample line, indented by up to MaxIndent spaces, after up to
\* MaxLeadingLines empty lines; two sample lines separated by CR LF; and the
\* example, named, class and comment lines on their own.
LintData ==
    { Repeat(<<"\n">>, k) \o Repeat(<<" ">>, i) \o line :
        k \in 0..MaxLeadingLines, i \in 0..MaxIndent, line \in LintLineSamples }
    \cup { line \o <<"\r", "\n">> \o second :
             line \in LintLineSamples, second \in SecondLineSamples }
    \cup ExampleLines \cup NamedLines \cup ClassLines \cup CommentLines

InitLint ==
    \E e \in LintFileEntries :
        /\ startDir = ScanDirList[1]
        /\ tree = { SubSeq(e, 1, k) : k \in 1..Len(e) }
        /\ queueCount = 0
        /\ resultList = <<RelativePath(e)>>
        /\ isFinished = TRUE
        /\ pendingReaddir = {}
        /\ pendingStat = {}
        /\ callbackCount = 1
        /\ callbackArg = <<RelativePath(e)>>
        /\ processQueueCount = 1
        /\ lintFileCount = 0
        /\ lintResultCollection = <<>>
        /\ pendingRead = QueuedReads(<<RelativePath(e)>>)
        /\ readDone = <<>>
        /\ renderedReports = <<>>
        /\ errorLog = {}
        /\ failedCalls = {}

NextLint ==
    \E r \in pendingRead : \E fileData \in LintData : ReadFileOk(r, fileData)

SpecLint == InitLint /\ [][NextLint]_vars

(***************************************************************************)
(* Properties of the rules of a line                                       *)
(***************************************************************************)
\* The categories of a line: a variable declaration is $, a run of non-space
\* characters and a colon; a placeholder selector starts with %; both on the
\* trimmed line.  A class selector starts with a dot, a function with
\* "@function " and a mixin with "@mixin ".
IsVariableLine(line) ==
    RegExpTest(<<Lit("$"), Plus(NotCls({" "})), Lit(":")>>, trim(line))
IsPlaceHolderLine(line) == IsPrefix(<<"%">>, trim(line))
IsClassLine(line) == IsPrefix(<<".">>, trimRight(line))
IsFunctionLine(line) ==
    IsPrefix(<<"@", "f", "u", "n", "c", "t", "i", "o", "n", " ">>, trim(line))
IsMixinLine(line) == IsPrefix(<<"@", "m", "i", "x", "i", "n", " ">>, trim(line))

\* The messages recorded for a line (counted from 1) of a file, in order.
RECURSIVE TextsAt(_, _)
TextsAt(errors, n) ==
    IF errors = <<>> THEN <<>>
    ELSE (IF Head(errors)[1] = n THEN <<Head(errors)[2]>> ELSE <<>>)
             \o TextsAt(Tail(errors), n)

ErrorsAt(collection, fileName, n) ==
    IF HasKey(collection, fileName)
    THEN TextsAt(collection[KeyIndex(collection, fileName)].errors, n)
    ELSE <<>>

\* C9: for every line of every linted file, a variable line in a Style file, a
\* placeholder line in a Config, Mixin or Style file and a class selector line
\* outside a Module file have the not-permitted message as their only
\* violation, and no line has a not-permitted message in a role that permits
\* the category.
C9_PermissionBeforePattern ==
    \A i \in SucceededReads :
        LET file == readDone[i].sourceFile
            role == readDone[i].sourceFileRole
            lines == SplitLines(readDone[i].fileData)
        IN \A n \in 1..Len(lines) :
               LET at == ErrorsAt(lintResultCollection, file, n)
               IN /\ (IsVariableLine(lines[n]) /\ role = FILE_ROLE_STYLE)
                         => at = <<MSG_VARIABLE_HERE>>
                  /\ (IsPlaceHolderLine(lines[n])
                        /\ role \in {FILE_ROLE_CONFIG, FILE_ROLE_MIXIN, FILE_ROLE_STYLE})
                         => at = <<MSG_PLACEHOLDER_HERE>>
                  /\ (IsClassLine(lines[n]) /\ role # FILE_ROLE_MODULE)
                         => at = <<MSG_CLASS_HERE>>
                  /\ role # FILE_ROLE_STYLE => MSG_VARIABLE_HERE \notin Elements(at)
                  /\ role \notin {FILE_ROLE_CONFIG, FILE_ROLE_MIXIN, FILE_ROLE_STYLE}
                         => MSG_PLACEHOLDER_HERE \notin Elements(at)
                  /\ role = FILE_ROLE_MODULE => MSG_CLASS_HERE \notin Elements(at)

\* C9 witness: the Mixin file has been linted and the indented placeholder on
\* its second line has the not-permitted message as its only violation.
C9_Witness ==
    /\ Len(readDone) = 1
    /\ readDone[1].sourceFileRole = FILE_ROLE_MIXIN
    /\ LET lines == SplitLines(readDone[1].fileData)
       IN /\ Len(lines) = 2
          /\ IsPlaceHolderLine(lines[2])
          /\ Head(lines[2]) = " "
          /\ ErrorsAt(lintResultCollection, readDone[1].sourceFile, 2)
                 = <<MSG_PLACEHOLDER_HERE>>

\* The messages the permission table of the specification gives for functions
\* and mixins.
MSG_FUNCTION_HERE == "functions not permitted here"
MSG_MIXIN_HERE == "mixins not permitted here"

\* C10 (as claimed): a function line in a Config or Style file has a
\* functions-not-permitted violation and a mixin line in a Config or Style
\* file has a mixins-not-permitted violation.
C10_FunctionsAndMixinsNotPermitted ==
    \A i \in SucceededReads :
        LET file == readDone[i].sourceFile
            role == readDone[i].sourceFileRole
            lines == SplitLines(readDone[i].fileData)
        IN \A n \in 1..Len(lines) :
               LET at == Elements(ErrorsAt(lintResultCollection, file, n))
               IN role \in {FILE_ROLE_CONFIG, FILE_ROLE_STYLE} =>
                      /\ IsFunctionLine(lines[n]) => MSG_FUNCTION_HERE \in at
                      /\ IsMixinLine(lines[n]) => MSG_MIXIN_HERE \in at

(***************************************************************************)
(* Properties of the naming rules                                          *)
(***************************************************************************)
\* The base name of a file as the namespace rules use it: the file name
\* without directory and extension, in lower case, without one leading
\* underscore.
BaseName(path) ==
    LET stem == toLowerCase(basename(path, DotExtension))
    IN IF stem # <<>> /\ Head(stem) = "_" THEN Tail(stem) ELSE stem

\* The letter a name starts with in a file of the role.
RoleLetter(role) ==
    CASE role = FILE_ROLE_COMPONENT -> "c"
      [] role = FILE_ROLE_LAYOUT -> "l"
      [] role = FILE_ROLE_MODULE -> "m"
      [] OTHER -> ""

\* The text of a trimmed line between its role letter (the second character)
\* and its first underscore.
NamespaceOf(text) ==
    IF \E k \in 3..Len(text) : text[k] = "_"
    THEN LET k == CHOOSE k \in 3..Len(text) :
                      text[k] = "_" /\ \A h \in 3..(k - 1) : text[h] # "_"
         IN SubSeq(text, 3, k - 1)
    ELSE SubSeq(text, 3, Len(text))

\* C11 (as claimed): in a Component or Module file a variable line has no
\* violation exactly when it begins with $ and the role letter, matches
\* $<c|m><Uppercase><letters>+_<lowercase><letters/digits>+: and the text
\* between the role letter and the first underscore is the base name of the
\* file up to case; every other variable line has the invalid-variable-name
\* message as its only violation.
C11_NamespacedVariableRule ==
    \A i \in SucceededReads :
        LET file == readDone[i].sourceFile
            role == readDone[i].sourceFileRole
            lines == SplitLines(readDone[i].fileData)
        IN role \in {FILE_ROLE_COMPONENT, FILE_ROLE_MODULE} =>
               \A n \in 1..Len(lines) :
                   LET text == trim(lines[n])
                       at == ErrorsAt(lintResultCollection, file, n)
                       valid ==
                           /\ IsPrefix(<<"$", RoleLetter(role)>>, text)
                           /\ RegExpTest(RE_NamespacedVariable, text)
                           /\ toLowerCase(NamespaceOf(text)) = BaseName(file)
                   IN IsVariableLine(lines[n]) =>
                          /\ at = <<>> <=> valid
                          /\ ~valid => at = <<MSG_VARIABLE_NAME>>

\* C12 (as claimed): in a Component file a placeholder line has no violation
\* exactly when (a) in lower case it is %c, the base name and a terminator,
\* and the character after %c is an upper case letter, or (b) it begins with
\* %c, matches %<c|m><Uppercase><letters>+_<lowercase><letters/digits>+ and a
\* terminator, and its namespace is the base name up to case; in a Module
\* file only form (b), with %m, has no violation; every other placeholder
\* line has the invalid-placeholder-name message as its only violation.
C12_PlaceHolderRule ==
    \A i \in SucceededReads :
        LET file == readDone[i].sourceFile
            role == readDone[i].sourceFileRole
            lines == SplitLines(readDone[i].fileData)
        IN role \in {FILE_ROLE_COMPONENT, FILE_ROLE_MODULE} =>
               \A n \in 1..Len(lines) :
                   LET text == trim(lines[n])
                       at == ErrorsAt(lintResultCollection, file, n)
                       simple ==
                           /\ role = FILE_ROLE_COMPONENT
                           /\ \E c \in Terminator :
                                  IsPrefix(<<"%", "c">> \o BaseName(file) \o <<c>>,
                                           toLowerCase(text))
                           /\ text[3] \in Upper
                       namespaced ==
                           /\ IsPrefix(<<"%", RoleLetter(role)>>, text)
                           /\ RegExpTest(RE_NamespacedPlaceHolder, text)
                           /\ toLowerCase(NamespaceOf(text)) = BaseName(file)
                   IN IsPlaceHolderLine(lines[n]) =>
                          /\ at = <<>> <=> (simple \/ namespaced)
                          /\ ~(simple \/ namespaced) => at = <<MSG_PLACEHOLDER_NAME>>

\* C13 (as claimed): in a Module file a class selector line without
\* indentation has no violation exactly when it matches
\* .[a-z0-9][a-z0-9-]*[a-z0-9] and one of , : . space { and, up to case,
\* begins with a dot, the base name and one of , : . - space {; every other
\* such line has the invalid-class-name message as its only violation.
C13_ClassNameRule ==
    \A i \in SucceededReads :
        LET file == readDone[i].sourceFile
            role == readDone[i].sourceFileRole
            lines == SplitLines(readDone[i].fileData)
        IN role = FILE_ROLE_MODULE =>
               \A n \in 1..Len(lines) :
                   LET text == trimRight(lines[n])
                       at == ErrorsAt(lintResultCollection, file, n)
                       valid ==
                           /\ RegExpTest(RE_ClassName, text)
                           /\ \E c \in {",", ":", ".", "-", " ", "{"} :
                                  IsPrefix(<<".">> \o BaseName(file) \o <<c>>,
                                           toLowerCase(text))
                   IN IsClassLine(lines[n]) =>
                          /\ at = <<>> <=> valid
                          /\ ~valid => at = <<MSG_CLASS_NAME>>

\* The shapes of a variable declaration in the two roles without namespace:
\* $<lowercase letter><letters/digits/underscore>+: in Config and
\* $l<Uppercase><letters/digits>+: in Layout.
ConfigVariableShape ==
    <<Lit("$"), Cls(Lower), Plus(Cls(Upper \cup Lower \cup Digit \cup {"_"})), Lit(":")>>
LayoutVariableShape ==
    <<Lit("$"), Lit("l"), Cls(Upper), Plus(Cls(Upper \cup Lower \cup Digit)), Lit(":")>>

\* C14: in a Config file and in a Layout file a variable line has no violation
\* exactly when it matches the shape of the role, and every other variable
\* line has the invalid-variable-name message as its only violation.
C14_PlainVariableRule ==
    \A i \in SucceededReads :
        LET file == readDone[i].sourceFile
            role == readDone[i].sourceFileRole
            lines == SplitLines(readDone[i].fileData)
        IN role \in {FILE_ROLE_CONFIG, FILE_ROLE_LAYOUT} =>
               \A n \in 1..Len(lines) :
                   LET at == ErrorsAt(lintResultCollection, file, n)
                       valid ==
                           RegExpTest(IF role = FILE_ROLE_CONFIG THEN ConfigVariableShape
                                      ELSE LayoutVariableShape,
                                      trim(lines[n]))
                   IN IsVariableLine(lines[n]) =>
                          /\ at = <<>> <=> valid
                          /\ ~valid => at = <<MSG_VARIABLE_NAME>>

\* C14 witness: layout.scss has been linted with the line $badName: 1px; and
\* the line has the invalid-variable-name message as its only violation.
C14_Witness ==
    /\ Len(readDone) = 1
    /\ readDone[1].sourceFile = W_layout \o DotExtension
    /\ ~readDone[1].err
    /\ readDone[1].fileData
           = <<"$", "b", "a", "d", "N", "a", "m", "e", ":", " ", "1", "p", "x", ";">>
    /\ ErrorsAt(lintResultCollection, readDone[1].sourceFile, 1) = <<MSG_VARIABLE_NAME>>

(***************************************************************************)
(* Properties of the comment rule                                          *)
(***************************************************************************)
\* A comment line: two slashes at the start of the line.
IsCommentLine(line) == IsPrefix(<<"/", "/">>, trimRight(line))

\* A TODO comment: the slashes, one or more spaces and TODO:.
IsTodoComment(line) ==
    RegExpTest(<<Lit("/"), Lit("/"), Plus(Lit(" "))>> \o Lits(<<"T", "O", "D", "O", ":">>),
               trimRight(line))

\* The shape // -- detail --, the detail being as the linter takes it; how
\* short a detail may be is the subject of C16.
HasDetailShape(line) ==
    RegExpTest(Lits(<<"/", "/", " ", "-", "-", " ">>)
                   \o <<NotCls({" "}), Plus(AnyChar), NotCls({" "})>>
                   \o Lits(<<" ", "-", "-">>),
               trimRight(line))

CommentShapeRoles ==
    {FILE_ROLE_COMPONENT, FILE_ROLE_LAYOUT, FILE_ROLE_MIXIN, FILE_ROLE_MODULE}

\* C15: a comment line has the comment-shape message as a violation exactly
\* when the role of its file is Component, Layout, Mixin or Module, it is not
\* a TODO comment and it has not the shape // -- detail --; a comment line
\* never has another violation than this one.
C15_CommentRule ==
    \A i \in SucceededReads :
        LET file == readDone[i].sourceFile
            role == readDone[i].sourceFileRole
            lines == SplitLines(readDone[i].fileData)
        IN \A n \in 1..Len(lines) :
               LET at == ErrorsAt(lintResultCollection, file, n)
                   flagged ==
                       /\ role \in CommentShapeRoles
                       /\ ~IsTodoComment(lines[n])
                       /\ ~HasDetailShape(lines[n])
               IN IsCommentLine(lines[n]) =>
                      at = IF flagged THEN <<MSG_COMMENT>> ELSE <<>>

\* C15 witness: a Module file has been linted with the line // some detail
\* and the line has the comment-shape message as its only violation.
C15_Witness ==
    /\ Len(readDone) = 1
    /\ readDone[1].sourceFileRole = FILE_ROLE_MODULE
    /\ ~readDone[1].err
    /\ readDone[1].fileData
           = <<"/", "/", " ", "s", "o", "m", "e", " ", "d", "e", "t", "a", "i", "l">>
    /\ ErrorsAt(lintResultCollection, readDone[1].sourceFile, 1) = <<MSG_COMMENT>>

\* The detail of a comment line // -- detail --: what stands between the
\* opening "// -- " and the closing " --" of the line.
IsDashedComment(line) ==
    LET text == trimRight(line)
    IN /\ Len(text) >= 9
       /\ IsPrefix(<<"/", "/", " ", "-", "-", " ">>, text)
       /\ IsSuffix(<<" ", "-", "-">>, text)

DetailOf(line) ==
    LET text == trimRight(line) IN SubSeq(text, 7, Len(text) - 3)

\* C16 (as claimed): in a Component, Layout, Mixin or Module file a comment
\* // -- B -- has no violation when B is not empty and neither starts nor ends
\* with a space, whatever its length, and has the comment-shape violation
\* when B is empty or starts or ends with a space.
C16_CommentDetail ==
    \A i \in SucceededReads :
        LET file == readDone[i].sourceFile
            role == readDone[i].sourceFileRole
            lines == SplitLines(readDone[i].fileData)
        IN role \in CommentShapeRoles =>
               \A n \in 1..Len(lines) :
                   LET at == ErrorsAt(lintResultCollection, file, n)
                       B == DetailOf(lines[n])
                       wellFormed == B # <<>> /\ Head(B) # " " /\ B[Len(B)] # " "
                   IN IsDashedComment(lines[n]) =>
                          at = IF wellFormed THEN <<>> ELSE <<MSG_COMMENT>>

(***************************************************************************)
(* Properties of the base name                                             *)
(***************************************************************************)
\* The violations recorded for a file.
ErrorsOf(collection, fileName) ==
    IF HasKey(collection, fileName)
    THEN collection[KeyIndex(collection, fileName)].errors
    ELSE <<>>

\* The file name without directory and extension, in lower case, without the
\* whole run of its leading underscores.
RECURSIVE WithoutLeadingUnderscores(_)
WithoutLeadingUnderscores(s) ==
    IF s # <<>> /\ Head(s) = "_" THEN WithoutLeadingUnderscores(Tail(s)) ELSE s

BaseNameWholeRun(path) ==
    WithoutLeadingUnderscores(toLowerCase(basename(path, DotExtension)))

HasViolation(sourceFile, sourceFileRole, fileData) ==
    LintLines(<<>>, sourceFile, sourceFileRole, sourceFileBaseNameOf(sourceFile),
              SplitLines(fileData), 0) # <<>>

\* C18: every key of the violation collection is held once, maps to a list
\* that is not empty and is the path of a file with a role whose load
\* succeeded; a linted file without violation has no key.
C18_KeysHaveViolations ==
    /\ \A k \in 1..Len(lintResultCollection) :
           LET item == lintResultCollection[k]
           IN /\ item.errors # <<>>
              /\ RoleByConvention(item.fileName) # NO_ROLE
              /\ \E i \in SucceededReads : readDone[i].sourceFile = item.fileName
              /\ \A h \in 1..Len(lintResultCollection) :
                     lintResultCollection[h].fileName = item.fileName => h = k
    /\ \A i \in SucceededReads :
           ~HasViolation(readDone[i].sourceFile, readDone[i].sourceFileRole,
                         readDone[i].fileData)
               => ~HasKey(lintResultCollection, readDone[i].sourceFile)

\* C18 witness: two files have been linted, one without violation and one
\* with violations, a third load has failed, and the collection has the one
\* key of the file with violations.
C18_Witness ==
    /\ Cardinality(SucceededReads) = 2
    /\ Cardinality(FailedReads) = 1
    /\ Len(lintResultCollection) = 1
    /\ \E i \in SucceededReads :
           /\ ~HasViolation(readDone[i].sourceFile, readDone[i].sourceFileRole,
                            readDone[i].fileData)
           /\ ~HasKey(lintResultCollection, readDone[i].sourceFile)
    /\ Len(lintResultCollection[1].errors) = 2

\* The messages the line alone has in a file of the given name and role.
MessagesOfLine(sourceFile, sourceFileRole, line) ==
    LET errors == ErrorsOf(LintLine(<<>>, sourceFile, sourceFileRole,
                                    sourceFileBaseNameOf(sourceFile), line, 0),
                           sourceFile)
    IN [k \in 1..Len(errors) |-> errors[k][2]]

\* C19: the violations recorded for a linted file carry strictly increasing
\* line numbers between 1 and the number of lines of the file, no line has
\* more than one violation, and the violation recorded with number n is the
\* one of the n-th line of the split content.
C19_LineNumbersIncrease ==
    \A i \in SucceededReads :
        LET file == readDone[i].sourceFile
            role == readDone[i].sourceFileRole
            lines == SplitLines(readDone[i].fileData)
            errors == ErrorsOf(lintResultCollection, file)
        IN /\ \A k \in 1..Len(errors) : errors[k][1] \in 1..Len(lines)
           /\ \A k \in 1..(Len(errors) - 1) : errors[k][1] < errors[k + 1][1]
           /\ \A n \in 1..Len(lines) :
                  /\ Len(ErrorsAt(lintResultCollection, file, n)) <= 1
                  /\ ErrorsAt(lintResultCollection, file, n)
                         = MessagesOfLine(file, role, lines[n])

\* C19 witness: a file of two lines has been linted, the lines being
\* separated by CR LF, and it has one violation on line 1 and one on line 2.
C19_Witness ==
    /\ Len(readDone) = 1
    /\ ~readDone[1].err
    /\ Len(SplitLines(readDone[1].fileData)) = 2
    /\ \E k \in 1..Len(readDone[1].fileData) : readDone[1].fileData[k] = "\r"
    /\ LET errors == ErrorsOf(lintResultCollection, readDone[1].sourceFile)
       IN /\ Len(errors) = 2
          /\ errors[1][1] = 1
          /\ errors[2][1] = 2

(***************************************************************************)
(* Properties of the completion of the loads                               *)
(***************************************************************************)
\* C20: a step renders the results only when none have been rendered before,
\* and after it no load is outstanding: processQueueCount is 0 and every
\* readFile started has called back.
C20_RenderedOnceWhenDrained ==
    [][renderedReports' # renderedReports =>
           /\ renderedReports = <<>>
           /\ Len(renderedReports') = 1
           /\ processQueueCount' = 0
           /\ pendingRead' = {}
           /\ Len(readDone') = Cardinality(QueuedReads(callbackArg'))]_vars

\* C20 witness: three loads were started, all have called back, one of them
\* with an error, and the results have been rendered.
C20_Witness ==
    /\ Len(renderedReports) = 1
    /\ Len(readDone) = 3
    /\ Cardinality(FailedReads) = 1
    /\ pendingRead = {}
    /\ processQueueCount = 0

(***************************************************************************)
(* Properties of the callback of readdirRecurse                            *)
(***************************************************************************)
\* C21: the callback of readdirRecurse is never invoked more than once, and
\* when every fs.readdir and fs.stat calls back it is eventually invoked and
\* stays invoked once.
C21_CallbackExactlyOnce ==
    /\ [](callbackCount \in {0, 1})
    /\ <>[](callbackCount = 1)

\* C21 witness: the callback has been invoked once, two calls have failed
\* and callbacks have fired after the first failure.
C21_Witness ==
    /\ callbackCount = 1
    /\ Cardinality(failedCalls) >= 2
    /\ pendingReaddir = {}
    /\ pendingStat = {}

(***************************************************************************)
(* Properties of the violations of one file among those of the others      *)
(***************************************************************************)
\* The list stored under the key of a file, empty when there is no such key.
ViolationsUnder(collection, fileName) ==
    LET items == { k \in 1..Len(collection) : collection[k].fileName = fileName }
    IN IF items = {} THEN <<>> ELSE collection[CHOOSE k \in items : TRUE].errors

\* The violations of a file linted alone: a function of its path, its role
\* and its content.
ViolationsAlone(sourceFile, sourceFileRole, fileData) ==
    ViolationsUnder(LintLines(<<>>, sourceFile, sourceFileRole,
                              sourceFileBaseNameOf(sourceFile), SplitLines(fileData), 0),
                    sourceFile)

\* C22: in every order of the readFile callbacks the list stored for a linted
\* file is the one of the file linted alone, and a step never changes the
\* list stored under a key that exists.
C22_FileResultsIndependent ==
    /\ [](\A i \in SucceededReads :
              ViolationsUnder(lintResultCollection, readDone[i].sourceFile)
                  = ViolationsAlone(readDone[i].sourceFile, readDone[i].sourceFileRole,
                                    readDone[i].fileData))
    /\ [][\A k \in 1..Len(lintResultCollection) :
              ViolationsUnder(lintResultCollection', lintResultCollection[k].fileName)
                  = lintResultCollection[k].errors]_vars

\* C22 witness: two files with violations have been linted, the later one of
\* the sorted list first, and each has its own list.
C22_Witness ==
    /\ Len(readDone) = 2
    /\ SucceededReads = {1, 2}
    /\ StrLess(readDone[2].sourceFile, readDone[1].sourceFile)
    /\ Len(lintResultCollection) = 2
    /\ readDone[1].sourceFileRole # readDone[2].sourceFileRole

\* C23 (as claimed): once the callback of readdirRecurse has been invoked,
\* the array it was given holds what it held at the invocation, whether or
\* not a readdir or stat has failed.
C23_DeliveredListFrozen ==
    callbackCount > 0 => resultList = callbackArg

(***************************************************************************)
(* Properties of the categories of a line                                  *)
(***************************************************************************)
\* The line without the white space at its start.
RECURSIVE WithoutIndent(_)
WithoutIndent(line) ==
    IF line # <<>> /\ Head(line) \in WhiteSpace THEN WithoutIndent(Tail(line)) ELSE line

IsIndented(line) == WithoutIndent(line) # line

\* C24 (as claimed): a line whose trimmed text begins with $ but is not $, a
\* run of non-space characters and a colon has no violation, whatever the
\* role of its file.
C24_OnlyDeclarationsAreVariables ==
    \A i \in SucceededReads :
        LET lines == SplitLines(readDone[i].fileData)
        IN \A n \in 1..Len(lines) :
               (IsPrefix(<<"$">>, WithoutIndent(lines[n])) /\ ~IsVariableLine(lines[n]))
                   => ErrorsAt(lintResultCollection, readDone[i].sourceFile, n) = <<>>

\* C25: a line with white space at its start has neither the comment-shape
\* violation nor a class selector violation, and has none at all when the
\* slashes or the dot follow the white space; a line with white space before
\* $ or % has the violations the line has without that white space.
C25_IndentationAndCategories ==
    \A i \in SucceededReads :
        LET file == readDone[i].sourceFile
            role == readDone[i].sourceFileRole
            lines == SplitLines(readDone[i].fileData)
        IN \A n \in 1..Len(lines) :
               LET at == ErrorsAt(lintResultCollection, file, n)
                   text == WithoutIndent(lines[n])
               IN IsIndented(lines[n]) =>
                      /\ Elements(at) \cap {MSG_COMMENT, MSG_CLASS_HERE, MSG_CLASS_NAME} = {}
                      /\ (IsPrefix(<<"/", "/">>, text) \/ IsPrefix(<<".">>, text))
                             => at = <<>>
                      /\ (IsPrefix(<<"$">>, text) \/ IsPrefix(<<"%">>, text))
                             => at = MessagesOfLine(file, role, text)

\* C25 witness: a Layout file has been linted with an indented placeholder
\* line, which has the invalid-placeholder-name violation.
C25_Witness ==
    /\ Len(readDone) = 1
    /\ ~readDone[1].err
    /\ readDone[1].sourceFileRole = FILE_ROLE_LAYOUT
    /\ LET lines == SplitLines(readDone[1].fileData)
       IN /\ Len(lines) = 1
          /\ IsIndented(lines[1])
          /\ IsPrefix(<<"%">>, WithoutIndent(lines[1]))
          /\ ErrorsAt(lintResultCollection, readDone[1].sourceFile, 1)
                 = <<MSG_PLACEHOLDER_NAME>>

====
